---- MODULE Spec2Model ----
(***************************************************************************)
(* Model of doku's JSON printer: the rendering context (Ctxt) and its      *)
(* derivations, Ctxt::print / print_inner, print_array, and the one-column *)
(* layout renderer.                                                        *)
(*                                                                         *)
(* Text is modelled as a sequence of one-character strings, so that        *)
(* prefix tests (starts_with) and concatenation are computed, not assumed. *)
(***************************************************************************)
EXTENDS Integers, Sequences, FiniteSets, TLC

VARIABLES ctx, out, status, calls, result, actx, atrace

vars == <<ctx, out, status, calls, result, actx, atrace>>

(***************************************************************************)
(* Bounds                                                                  *)
(***************************************************************************)
\* cap on Ctxt.depth in the specifications that do not study the ceiling
MaxDepth == 2
\* cap on the size of the output model built in SpecRender
MaxSize == 4
\* cap on the indent level reached in SpecRender
MaxIndent == 1

(***************************************************************************)
(* Program constants                                                       *)
(***************************************************************************)
\* u8::MAX, the largest value of Ctxt.depth
U8Max == 255

(***************************************************************************)
(* Text helpers                                                            *)
(***************************************************************************)
\* Option<T> is a sequence of zero or one element
None == <<>>
Some(x) == <<x>>
\* the outcome of nested() when expect() fails
Panic == [panic |-> TRUE]

starts_with(s, p) ==
    /\ Len(s) >= Len(p)
    /\ SubSeq(s, 1, Len(p)) = p

RECURSIVE Spaces(_)
Spaces(n) == IF n <= 0 THEN <<>> ELSE <<" ">> \o Spaces(n - 1)

KeyFmt == <<"f", "m", "t">>
KeyFmtDot == <<"f", "m", "t", ".">>

(***************************************************************************)
(* Schema nodes (Type): kind, inner node, transparent flag, comment,       *)
(* example, metas (keys only) and the two visibility flags.                *)
(***************************************************************************)
NoExample == [tag |-> "None", text |-> <<>>]
Literal(t) == [tag |-> "Literal", text |-> t]
Simple(t) == [tag |-> "Simple", text |-> t]

TypeTable ==
    <<  \* 1: plain bool
        [kind |-> "Bool", inner |-> 0, transparent |-> FALSE,
         comment |-> None, example |-> NoExample, metas |-> <<>>,
         serializable |-> TRUE, deserializable |-> TRUE],
        \* 2: string with a simple example, serialize-only
        [kind |-> "String", inner |-> 0, transparent |-> FALSE,
         comment |-> Some(<<"c">>), example |-> Simple(<<"s">>),
         metas |-> << <<"f", "m", "t", "x">> >>,
         serializable |-> TRUE, deserializable |-> FALSE],
        \* 3: array of bool with a literal example and a "fmt" meta
        [kind |-> "Array", inner |-> 1, transparent |-> FALSE,
         comment |-> Some(<<"a">>), example |-> Literal(<<"[", "1", "]">>),
         metas |-> << <<"f", "m", "t">> >>,
         serializable |-> TRUE, deserializable |-> TRUE],
        \* 4: transparent struct over a bool with a "fmt.i" meta,
        \*    deserialize-only
        [kind |-> "Struct", inner |-> 1, transparent |-> TRUE,
         comment |-> None, example |-> NoExample,
         metas |-> << <<"d">>, <<"f", "m", "t", ".", "i">> >>,
         serializable |-> FALSE, deserializable |-> TRUE],
        \* 5: ordinary struct, skipped in both directions
        [kind |-> "Struct", inner |-> 2, transparent |-> FALSE,
         comment |-> Some(<<"k">>), example |-> Literal(<<"{", "}">>),
         metas |-> <<>>,
         serializable |-> FALSE, deserializable |-> FALSE],
        \* 6: optional string
        [kind |-> "Optional", inner |-> 2, transparent |-> FALSE,
         comment |-> None, example |-> NoExample, metas |-> << <<"d">> >>,
         serializable |-> TRUE, deserializable |-> TRUE],
        \* 7: array of bool without an example
        [kind |-> "Array", inner |-> 1, transparent |-> FALSE,
         comment |-> None, example |-> NoExample, metas |-> <<>>,
         serializable |-> TRUE, deserializable |-> TRUE],
        \* 8: enum
        [kind |-> "Enum", inner |-> 0, transparent |-> FALSE,
         comment |-> Some(<<"v">>), example |-> NoExample, metas |-> <<>>,
         serializable |-> TRUE, deserializable |-> TRUE] >>

Types == 1..Len(TypeTable)
Ty(t) == TypeTable[t]

Visibilities == {"SerializableOnly", "DeserializableOnly"}

allows(vis, serializable, deserializable) ==
    IF vis = "SerializableOnly" THEN serializable ELSE deserializable

(***************************************************************************)
(* Formatting: the comment separator and the per-node overrides that       *)
(* customize() merged in.                                                  *)
(***************************************************************************)
DefaultFmt == [separator |-> <<"/", "/">>, custom |-> <<>>]
HashFmt == [separator |-> <<"#">>, custom |-> <<>>]
Fmts == {DefaultFmt, HashFmt}

requires_custom_formatting(ty) ==
    \E i \in 1..Len(Ty(ty).metas) :
        \/ Ty(ty).metas[i] = KeyFmt
        \/ starts_with(Ty(ty).metas[i], KeyFmtDot)

customize(fmt, metas) ==
    [fmt EXCEPT !.custom =
        SelectSeq(metas, LAMBDA k : k = KeyFmt \/ starts_with(k, KeyFmtDot))]

(***************************************************************************)
(* Output model: lines with id, indent, body and comments; the current     *)
(* indent; comments waiting for the next line.                             *)
(***************************************************************************)
EmptyOutput(fmt) ==
    [fmt |-> fmt, lines |-> <<>>, indent |-> 0, pending |-> <<>>]

Out_ln(o) ==
    [o EXCEPT
        !.lines = Append(o.lines,
            [id |-> Len(o.lines), indent |-> o.indent,
             body |-> <<>>, comments |-> o.pending]),
        !.pending = <<>>]

Out_write(o, t) ==
    LET o1 == IF o.lines = <<>> THEN Out_ln(o) ELSE o
        n == Len(o1.lines)
    IN  [o1 EXCEPT !.lines[n].body = o1.lines[n].body \o t]

Out_comment(o, c) == [o EXCEPT !.pending = Append(o.pending, c)]

Out_inc_indent(o) == [o EXCEPT !.indent = o.indent + 1]

Out_dec_indent(o) == [o EXCEPT !.indent = o.indent - 1]

\* text(s): write on the current line; line(s): write, then start a new line
Out_text(o, t) == Out_write(o, t)

Out_line(o, t) == Out_ln(Out_write(o, t))

(***************************************************************************)
(* Ctxt and its derivations (ctxt.rs)                                      *)
(***************************************************************************)
NewCtxt(ty, val, vis, fmt) ==
    [ty |-> ty, val |-> val, vis |-> vis, fmt |-> fmt, is_key |-> FALSE,
     parent |-> 0, example |-> NoExample, flat |-> FALSE, depth |-> 0]

checked_add(a, b) == IF a + b > U8Max THEN None ELSE Some(a + b)

\* nested() with a wrapping increment
nested_wrapping(c) ==
    [ty |-> c.ty, val |-> c.val, vis |-> c.vis, fmt |-> c.fmt,
     is_key |-> FALSE, parent |-> c.parent, example |-> c.example,
     flat |-> c.flat, depth |-> (c.depth + 1) % (U8Max + 1)]

nested(c) ==
    IF checked_add(c.depth, 1) = None
    THEN Panic
    ELSE [ty |-> c.ty, val |-> c.val, vis |-> c.vis, fmt |-> c.fmt,
          is_key |-> FALSE, parent |-> c.parent, example |-> c.example,
          flat |-> c.flat, depth |-> checked_add(c.depth, 1)[1]]

\* with_ty that keeps the flatten flag through every struct
with_ty_keep_any_struct(c, ty) ==
    LET keep_flat == Ty(c.ty).kind = "Struct"
    IN  [c EXCEPT !.parent = c.ty,
                  !.ty = ty,
                  !.flat = c.flat /\ keep_flat,
                  !.example = NoExample]

\* with_ty that forgets to clear the example override
with_ty_keep_example(c, ty) ==
    LET keep_flat == Ty(c.ty).kind = "Struct" /\ Ty(c.ty).transparent
    IN  [c EXCEPT !.parent = c.ty,
                  !.ty = ty,
                  !.flat = c.flat /\ keep_flat]

with_ty(c, ty) ==
    LET keep_flat == Ty(c.ty).kind = "Struct" /\ Ty(c.ty).transparent
    IN  [c EXCEPT !.parent = c.ty,
                  !.ty = ty,
                  !.flat = c.flat /\ keep_flat,
                  !.example = NoExample]

with_val(c, val) == [c EXCEPT !.val = val]

\* with_fmt that rebuilds the context with a fresh depth
with_fmt_depth_reset(c, fmt) ==
    [ty |-> c.ty, val |-> c.val, vis |-> c.vis, fmt |-> fmt,
     is_key |-> FALSE, parent |-> c.parent, example |-> c.example,
     flat |-> c.flat, depth |-> 0]

with_fmt(c, fmt) ==
    [ty |-> c.ty, val |-> c.val, vis |-> c.vis, fmt |-> fmt,
     is_key |-> FALSE, parent |-> c.parent, example |-> c.example,
     flat |-> c.flat, depth |-> c.depth]

with_example(c, e) == [c EXCEPT !.example = e]

with_flat(c) == [c EXCEPT !.flat = TRUE]

set_is_key(c) == [c EXCEPT !.is_key = TRUE]

example(c) == IF c.example # NoExample THEN c.example ELSE Ty(c.ty).example

first_example(c) ==
    IF example(c) = NoExample THEN None ELSE Some(example(c).text)

literal_example(c) ==
    IF example(c) # NoExample /\ example(c).tag = "Literal"
    THEN Some(example(c).text)
    ELSE None

(***************************************************************************)
(* Printing (ctxt.rs).  A printing state is the pair of the output model   *)
(* and the log of the kind-specific printers that were invoked.            *)
(***************************************************************************)
print_comment(c, s) ==
    IF Ty(c.ty).comment = None
    THEN s
    ELSE [s EXCEPT !.out = Out_comment(s.out, Ty(c.ty).comment[1])]

\* placeholder written by the printer of each kind
Placeholder(kind) ==
    CASE kind = "Bool" -> <<"t">>
      [] kind = "Float" -> <<"1", ".", "0">>
      [] kind = "Integer" -> <<"1">>
      [] kind = "String" -> <<"s">>
      [] kind = "Array" -> <<"[">>
      [] kind = "Enum" -> <<"e">>
      [] kind = "Struct" -> <<"{">>
      [] kind = "Tuple" -> <<"(">>
      [] kind = "Map" -> <<"m">>
      [] OTHER -> <<"o">>

\* The printers of the individual kinds: each is represented by the record
\* of its invocation (with the context it received) and by the token it
\* writes: the first example when there is one, the placeholder otherwise.
print_kind(c, s) ==
    [out |-> Out_write(s.out,
                IF first_example(c) = None
                THEN Placeholder(Ty(c.ty).kind)
                ELSE first_example(c)[1]),
     calls |-> Append(s.calls, [printer |-> Ty(c.ty).kind, ctx |-> c])]

\* print_inner without the return after the literal example
print_inner_no_return(c, s) ==
    LET s1 == print_comment(c, s)
    IN  IF literal_example(c) # None
        THEN print_kind(c,
                [s1 EXCEPT !.out = Out_write(s1.out, literal_example(c)[1])])
        ELSE print_kind(c, s1)

print_inner(c, s) ==
    LET s1 == print_comment(c, s)
    IN  IF literal_example(c) # None
        THEN [s1 EXCEPT !.out = Out_write(s1.out, literal_example(c)[1])]
        ELSE print_kind(c, s1)

\* print without the visibility test
print_ignoring_vis(c, s) ==
    IF requires_custom_formatting(c.ty)
    THEN print_inner(with_fmt(c, customize(c.fmt, Ty(c.ty).metas)), s)
    ELSE print_inner(c, s)

print(c, s) ==
    IF ~allows(c.vis, Ty(c.ty).serializable, Ty(c.ty).deserializable)
    THEN s
    ELSE IF requires_custom_formatting(c.ty)
         THEN print_inner(with_fmt(c, customize(c.fmt, Ty(c.ty).metas)), s)
         ELSE print_inner(c, s)

(***************************************************************************)
(* One-column layout (one_column.rs)                                       *)
(***************************************************************************)
RECURSIVE render_comments(_, _, _)
render_comments(comments, indent, separator) ==
    IF comments = <<>>
    THEN <<>>
    ELSE Spaces(indent) \o separator \o <<" ">> \o Head(comments) \o <<"\n">>
         \o render_comments(Tail(comments), indent, separator)

\* render_line that breaks before every line, the first included
render_line_always_break(line, separator) ==
    <<"\n">>
    \o render_comments(line.comments, line.indent, separator)
    \o Spaces(line.indent)
    \o line.body

render_line(line, separator) ==
    (IF line.id > 0 THEN <<"\n">> ELSE <<>>)
    \o render_comments(line.comments, line.indent, separator)
    \o Spaces(line.indent)
    \o line.body

RECURSIVE render_lines(_, _)
render_lines(lines, separator) ==
    IF lines = <<>>
    THEN <<>>
    ELSE render_line(Head(lines), separator)
         \o render_lines(Tail(lines), separator)

render(o) == render_lines(o.lines, o.fmt.separator)

(***************************************************************************)
(* print_array (print_array.rs).  Its context carries the visibility mode, *)
(* the inline flag, the resolved example of the array and the switch of    *)
(* variant expansion.  A printing state is the output model together with  *)
(* the trace of the writer operations applied to it.                       *)
(***************************************************************************)
Ev(op, arg) == [op |-> op, arg |-> arg]

A_text(s, t) ==
    [out |-> Out_text(s.out, t), tr |-> Append(s.tr, Ev("text", t))]

A_line(s, t) ==
    [out |-> Out_line(s.out, t), tr |-> Append(s.tr, Ev("line", t))]

A_inc_indent(s) ==
    [out |-> Out_inc_indent(s.out), tr |-> Append(s.tr, Ev("inc_indent", <<>>))]

A_dec_indent(s) ==
    [out |-> Out_dec_indent(s.out), tr |-> Append(s.tr, Ev("dec_indent", <<>>))]

OpenInline == <<"[", " ">>
OpenBlock == <<"[">>
CloseInline == <<" ", "]">>
CloseBlock == <<"]">>
Comma == <<",">>
Ellipsis == <<"/", "*", " ", ".", ".", ".", " ", "*", "/">>
CommaEllipsis == <<",", " ">> \o Ellipsis

\* example() of the array printer's context: the example text of a node
type_example(ty) ==
    IF Ty(ty).example = NoExample THEN None ELSE Some(Ty(ty).example.text)

\* expand_variants(ty): one entry per variant when the element is an enum
\* and the expansion is switched on; tells whether it expanded
expand_variants(c, ty, s) ==
    IF Ty(ty).kind = "Enum" /\ c.expand
    THEN [expanded |-> TRUE,
          s |-> IF c.inline
                THEN A_text(s, <<"A", ",", " ", "B">>)
                ELSE A_line(A_line(s, <<"A", ",">>), <<"B">>)]
    ELSE [expanded |-> FALSE, s |-> s]

RECURSIVE print_array(_, _, _)
RECURSIVE print_elem(_, _, _)

\* self.with_ty(ty).print() of the array printer's context
print_elem(c, ty, s) ==
    IF ~allows(c.mode, Ty(ty).serializable, Ty(ty).deserializable)
    THEN s
    ELSE IF Ty(ty).kind = "Array"
         THEN print_array([c EXCEPT !.example = type_example(ty)],
                          Ty(ty).inner, s)
         ELSE A_text(s, IF type_example(ty) = None
                        THEN Placeholder(Ty(ty).kind)
                        ELSE type_example(ty)[1])

\* print_array that takes every example for a full literal
print_array_any_example(c, ty, s) ==
    IF ~allows(c.mode, Ty(ty).serializable, Ty(ty).deserializable)
    THEN s
    ELSE IF c.example # None
    THEN A_text(s, c.example[1])
    ELSE
        LET s1 == IF c.inline
                  THEN A_text(s, OpenInline)
                  ELSE A_inc_indent(A_line(s, OpenBlock))
            ev == expand_variants(c, ty, s1)
            s2 == IF ~ev.expanded
                  THEN LET e == print_elem(c, ty, ev.s)
                       IN  IF c.inline
                           THEN A_text(e, CommaEllipsis)
                           ELSE A_line(A_line(e, Comma), Ellipsis)
                  ELSE ev.s
        IN  IF c.inline
            THEN A_text(s2, CloseInline)
            ELSE A_text(A_dec_indent(s2), CloseBlock)

\* print_array that closes the block without dec_indent
print_array_no_dec(c, ty, s) ==
    IF ~allows(c.mode, Ty(ty).serializable, Ty(ty).deserializable)
    THEN s
    ELSE IF c.example # None /\ starts_with(c.example[1], <<"[">>)
    THEN A_text(s, c.example[1])
    ELSE
        LET s1 == IF c.inline
                  THEN A_text(s, OpenInline)
                  ELSE A_inc_indent(A_line(s, OpenBlock))
            ev == expand_variants(c, ty, s1)
            s2 == IF ~ev.expanded
                  THEN LET e == print_elem(c, ty, ev.s)
                       IN  IF c.inline
                           THEN A_text(e, CommaEllipsis)
                           ELSE A_line(A_line(e, Comma), Ellipsis)
                  ELSE ev.s
        IN  IF c.inline
            THEN A_text(s2, CloseInline)
            ELSE A_text(s2, CloseBlock)

print_array(c, ty, s) ==
    IF ~allows(c.mode, Ty(ty).serializable, Ty(ty).deserializable)
    THEN s
    ELSE IF c.example # None /\ starts_with(c.example[1], <<"[">>)
    THEN A_text(s, c.example[1])
    ELSE
        LET s1 == IF c.inline
                  THEN A_text(s, OpenInline)
                  ELSE A_inc_indent(A_line(s, OpenBlock))
            ev == expand_variants(c, ty, s1)
            s2 == IF ~ev.expanded
                  THEN LET e == print_elem(c, ty, ev.s)
                       IN  IF c.inline
                           THEN A_text(e, CommaEllipsis)
                           ELSE A_line(A_line(e, Comma), Ellipsis)
                  ELSE ev.s
        IN  IF c.inline
            THEN A_text(s2, CloseInline)
            ELSE A_text(A_dec_indent(s2), CloseBlock)

(***************************************************************************)
(* Inputs                                                                  *)
(***************************************************************************)
Vals == {0, 1}
Examples == {NoExample, Literal(<<"l">>), Simple(<<"e">>)}

\* Outputs the callers have built by the time a context is printed
InitOutputs(fmt) ==
    { EmptyOutput(fmt),
      Out_comment(
        Out_write(Out_ln(Out_inc_indent(Out_write(EmptyOutput(fmt), <<"{">>))),
                  <<"k", ":">>),
        <<"p">>) }

ArrayExamples ==
    {None, Some(<<>>), Some(<<"[", "a", "]">>), Some(<<"x">>),
     Some(<<"x", "[">>)}

NoArrayCtxt == [elem |-> 1, mode |-> "SerializableOnly",
                inline |-> FALSE, example |-> None, expand |-> FALSE]

ArrayCtxts ==
    [elem : Types, mode : Visibilities, inline : BOOLEAN,
     example : ArrayExamples, expand : BOOLEAN]

\* Number of entries (lines, body characters, comments) of an output model
RECURSIVE LinesSize(_)
LinesSize(lines) ==
    IF lines = <<>>
    THEN 0
    ELSE 1 + Len(Head(lines).body) + Len(Head(lines).comments)
         + LinesSize(Tail(lines))

OutSize(o) == LinesSize(o.lines) + Len(o.pending)

(***************************************************************************)
(* Actions of a render call: derive contexts, print, render                *)
(***************************************************************************)
Init ==
    /\ \E ty \in Types, vis \in Visibilities, fmt \in Fmts :
        /\ ctx = NewCtxt(ty, 0, vis, fmt)
        /\ out \in InitOutputs(fmt)
    /\ status = "building"
    /\ calls = <<>>
    /\ result = None
    /\ actx = NoArrayCtxt
    /\ atrace = <<>>

Nested ==
    /\ status = "building"
    /\ IF nested(ctx) = Panic
       THEN /\ status' = "aborted"
            /\ UNCHANGED ctx
       ELSE /\ ctx' = nested(ctx)
            /\ UNCHANGED status
    /\ UNCHANGED <<out, calls, result, actx, atrace>>

NestedCapped ==
    /\ ctx.depth < MaxDepth
    /\ Nested

WithTy(ty) ==
    /\ status = "building"
    /\ ctx' = with_ty(ctx, ty)
    /\ UNCHANGED <<out, status, calls, result, actx, atrace>>

WithVal(val) ==
    /\ status = "building"
    /\ ctx' = with_val(ctx, val)
    /\ UNCHANGED <<out, status, calls, result, actx, atrace>>

WithFmt(fmt) ==
    /\ status = "building"
    /\ ctx' = with_fmt(ctx, fmt)
    /\ UNCHANGED <<out, status, calls, result, actx, atrace>>

WithExample(e) ==
    /\ status = "building"
    /\ ctx' = with_example(ctx, e)
    /\ UNCHANGED <<out, status, calls, result, actx, atrace>>

WithFlat ==
    /\ status = "building"
    /\ ctx' = with_flat(ctx)
    /\ UNCHANGED <<out, status, calls, result, actx, atrace>>

SetIsKey ==
    /\ status = "building"
    /\ ctx' = set_is_key(ctx)
    /\ UNCHANGED <<out, status, calls, result, actx, atrace>>

PrintCtxt ==
    /\ status = "building"
    /\ LET s == print(ctx, [out |-> out, calls |-> calls])
       IN  /\ out' = s.out
           /\ calls' = s.calls
    /\ status' = "printed"
    /\ UNCHANGED <<ctx, result, actx, atrace>>

Render ==
    /\ status = "printed"
    /\ result' = Some(render(out))
    /\ status' = "done"
    /\ UNCHANGED <<ctx, out, calls, actx, atrace>>

Next ==
    \/ NestedCapped
    \/ \E ty \in Types : WithTy(ty)
    \/ \E val \in Vals : WithVal(val)
    \/ \E fmt \in Fmts : WithFmt(fmt)
    \/ \E e \in Examples : WithExample(e)
    \/ WithFlat
    \/ SetIsKey
    \/ PrintCtxt
    \/ Render

Spec == Init /\ [][Next]_vars

TypeOK ==
    /\ ctx.depth \in 0..U8Max
    /\ status \in {"building", "printed", "done", "aborted"}

(***************************************************************************)
(* A render call that runs into the depth ceiling                          *)
(***************************************************************************)
\* the wrappers whose chains nest: array and optional
DepthTypes == {3, 6}

InitDepth ==
    /\ Init
    /\ ctx.ty \in DepthTypes

NextDepth ==
    \/ Nested
    \/ \E ty \in DepthTypes : WithTy(ty)
    \/ PrintCtxt
    \/ Render

SpecDepth == InitDepth /\ [][NextDepth]_vars

(***************************************************************************)
(* A render call seen from the output model: the printers' writer          *)
(* operations, then the layout                                             *)
(***************************************************************************)
Texts == {<<"x">>, <<"y", "z">>}
Comments == {<<"c">>, <<"d">>}

InitRender ==
    /\ \E fmt \in Fmts :
        /\ ctx = NewCtxt(1, 0, "SerializableOnly", fmt)
        /\ out = EmptyOutput(fmt)
    /\ status = "building"
    /\ calls = <<>>
    /\ result = None
    /\ actx = NoArrayCtxt
    /\ atrace = <<>>

OutWrite(t) ==
    /\ status = "building"
    /\ OutSize(out) + Len(t) <= MaxSize
    /\ out' = Out_write(out, t)
    /\ UNCHANGED <<ctx, status, calls, result, actx, atrace>>

OutLn ==
    /\ status = "building"
    /\ OutSize(out) < MaxSize
    /\ out' = Out_ln(out)
    /\ UNCHANGED <<ctx, status, calls, result, actx, atrace>>

OutComment(c) ==
    /\ status = "building"
    /\ OutSize(out) < MaxSize
    /\ out' = Out_comment(out, c)
    /\ UNCHANGED <<ctx, status, calls, result, actx, atrace>>

OutIncIndent ==
    /\ status = "building"
    /\ out.indent < MaxIndent
    /\ out' = Out_inc_indent(out)
    /\ UNCHANGED <<ctx, status, calls, result, actx, atrace>>

OutDecIndent ==
    /\ status = "building"
    /\ out.indent > 0
    /\ out' = Out_dec_indent(out)
    /\ UNCHANGED <<ctx, status, calls, result, actx, atrace>>

NextRender ==
    \/ \E t \in Texts : OutWrite(t)
    \/ OutLn
    \/ \E c \in Comments : OutComment(c)
    \/ OutIncIndent
    \/ OutDecIndent
    \/ PrintCtxt
    \/ Render

SpecRender == InitRender /\ [][NextRender]_vars

(***************************************************************************)
(* A call of print_array                                                   *)
(***************************************************************************)
InitArray ==
    /\ \E fmt \in Fmts :
        /\ ctx = NewCtxt(7, 0, "SerializableOnly", fmt)
        /\ out \in InitOutputs(fmt)
    /\ actx \in ArrayCtxts
    /\ status = "building"
    /\ calls = <<>>
    /\ result = None
    /\ atrace = <<>>

PrintArray ==
    /\ status = "building"
    /\ LET s == print_array(actx, actx.elem, [out |-> out, tr |-> atrace])
       IN  /\ out' = s.out
           /\ atrace' = s.tr
    /\ status' = "printed"
    /\ UNCHANGED <<ctx, calls, result, actx>>

NextArray ==
    \/ PrintArray
    \/ Render

SpecArray == InitArray /\ [][NextArray]_vars

(***************************************************************************)
(* Properties                                                              *)
(***************************************************************************)
Printing == status = "building" /\ status' = "printed"

Visible(c) == allows(c.vis, Ty(c.ty).serializable, Ty(c.ty).deserializable)

\* the effective example of a context: the override, else the node's own
Effective(c) == IF c.example # NoExample THEN c.example ELSE Ty(c.ty).example

WithComment(c, o) ==
    IF Ty(c.ty).comment = None THEN o ELSE Out_comment(o, Ty(c.ty).comment[1])

\* C1: when the visibility filter of the context rejects the flags of the
\* current node, print leaves the output model as it was (no line, no text,
\* no comment) and invokes no printer, whatever the node carries.
C1_RejectedPrintIsNoOp ==
    [][(Printing /\ ~Visible(ctx)) => (out' = out /\ calls' = calls)]_vars

C1_Witness ==
    /\ status = "printed"
    /\ ~Visible(ctx)
    /\ Ty(ctx.ty).comment # None
    /\ ctx.example # NoExample
    /\ out.lines # <<>>
    /\ calls = <<>>

\* C2: nested() on a context of depth 255 aborts the render call: the
\* counter does not wrap to 0, and an aborted call never returns a document.
C2_DepthCeilingAborts ==
    /\ [][(ctx.depth = U8Max /\ Nested)
            => (status' = "aborted" /\ ctx'.depth = U8Max)]_vars
    /\ [][ctx'.depth >= ctx.depth]_vars
    /\ [](status = "aborted" => result = None)

C2_Witness ==
    /\ status = "aborted"
    /\ ctx.depth = U8Max
    /\ out.lines # <<>>
    /\ result = None

\* C3: the depth never decreases along derivations: nested() adds exactly
\* one, and with_ty, with_val, with_fmt, with_example, with_flat and
\* set_is_key keep it.
C3_DepthMonotone ==
    [][ /\ ctx'.depth >= ctx.depth
        /\ (Nested /\ status' = "building") => ctx'.depth = ctx.depth + 1
        /\ ( \/ \E ty \in Types : WithTy(ty)
             \/ \E val \in Vals : WithVal(val)
             \/ \E fmt \in Fmts : WithFmt(fmt)
             \/ \E e \in Examples : WithExample(e)
             \/ WithFlat
             \/ SetIsKey ) => ctx'.depth = ctx.depth ]_vars

C3_Witness ==
    /\ ctx.depth >= 2
    /\ ctx.parent # 0
    /\ ctx.flat
    /\ ctx.is_key
    /\ ctx.val = 1
    /\ ctx.example # NoExample
    /\ ctx.fmt # out.fmt

\* C4: after with_ty the flatten flag is set exactly when it was set before
\* and the node that is left is a transparent struct; the node that is left
\* becomes the parent of the new node.
C4_FlatOnlyThroughTransparent ==
    [][\A ty \in Types : WithTy(ty) =>
            /\ ctx'.flat <=> ( /\ ctx.flat
                               /\ Ty(ctx.ty).kind = "Struct"
                               /\ Ty(ctx.ty).transparent )
            /\ ctx'.parent = ctx.ty
            /\ ctx'.ty = ty]_vars

C4_Witness ==
    /\ ctx.flat
    /\ ctx.parent # 0
    /\ Ty(ctx.parent).kind = "Struct"
    /\ Ty(ctx.parent).transparent
    /\ ctx.ty # ctx.parent
    /\ ctx.depth > 0

\* C5: an example override is gone after with_ty, so the effective example
\* is then the new node's own; nested() and with_fmt keep the override; an
\* override that is present wins over the node's own example.
C5_ExampleOverrideOneLevel ==
    /\ [][ /\ \A ty \in Types : WithTy(ty) =>
                /\ ctx'.example = NoExample
                /\ example(ctx') = Ty(ty).example
           /\ (Nested /\ status' = "building") => ctx'.example = ctx.example
           /\ \A fmt \in Fmts : WithFmt(fmt) => ctx'.example = ctx.example
         ]_vars
    /\ [](ctx.example # NoExample => example(ctx) = ctx.example)
    /\ [](ctx.example = NoExample => example(ctx) = Ty(ctx.ty).example)

C5_Witness ==
    /\ ctx.parent # 0
    /\ ctx.example = NoExample
    /\ Ty(ctx.ty).example # NoExample
    /\ ctx.depth > 0
    /\ status = "building"

\* C6: printing a visible node whose effective example is a literal attaches
\* the node's comment, writes the literal text and nothing else, and invokes
\* no kind-specific printer.
C6_LiteralShortCircuits ==
    [][(Printing /\ Visible(ctx) /\ Effective(ctx).tag = "Literal") =>
            /\ calls' = calls
            /\ out' = Out_write(WithComment(ctx, out), Effective(ctx).text)
      ]_vars

C6_Witness ==
    /\ status = "printed"
    /\ Visible(ctx)
    /\ Effective(ctx).tag = "Literal"
    /\ Ty(ctx.ty).kind = "Array"
    /\ Ty(ctx.ty).comment # None
    /\ calls = <<>>
    /\ out.lines # <<>>

\* C9: a context with the map-key flag set reaches the kind-specific printer
\* with the flag still set, with or without custom-formatting metadata: the
\* printer's context differs from the printed one in the formatting
\* configuration at most.
C9_KeyFlagReachesPrinter ==
    [][(Printing /\ ctx.is_key /\ Visible(ctx)
            /\ Effective(ctx).tag # "Literal") =>
            /\ Len(calls') = Len(calls) + 1
            /\ calls'[Len(calls')].ctx.is_key
            /\ [calls'[Len(calls')].ctx EXCEPT !.fmt = ctx.fmt] = ctx
      ]_vars

\* C7: the one-column document is the lines in insertion order; every line
\* but the first is preceded by a line break; each comment of a line stands
\* on its own line, indented as the line, after the separator and a space;
\* then comes the indented body; nothing follows the last body.
RECURSIVE C7_CommentsFrom(_, _, _)
C7_CommentsFrom(line, separator, j) ==
    IF j > Len(line.comments)
    THEN <<>>
    ELSE Spaces(line.indent) \o separator \o <<" ">> \o line.comments[j]
         \o <<"\n">> \o C7_CommentsFrom(line, separator, j + 1)

RECURSIVE C7_DocFrom(_, _)
C7_DocFrom(o, i) ==
    IF i > Len(o.lines)
    THEN <<>>
    ELSE (IF i = 1 THEN <<>> ELSE <<"\n">>)
         \o C7_CommentsFrom(o.lines[i], o.fmt.separator, 1)
         \o Spaces(o.lines[i].indent)
         \o o.lines[i].body
         \o C7_DocFrom(o, i + 1)

C7_OneColumnLayout ==
    status = "done" => result = Some(C7_DocFrom(out, 1))

C7_Witness ==
    /\ status = "done"
    /\ Len(out.lines) >= 2
    /\ out.lines[2].indent > 0
    /\ out.lines[2].comments # <<>>
    /\ out.lines[2].body # <<>>
    /\ result # None

ElemAllowed ==
    allows(actx.mode, Ty(actx.elem).serializable, Ty(actx.elem).deserializable)

FullLiteral ==
    /\ actx.example # None
    /\ actx.example[1] # <<>>
    /\ Head(actx.example[1]) = "["

OpenEvents == {Ev("text", OpenInline), Ev("line", OpenBlock)}
CloseEvents == {Ev("text", CloseInline), Ev("text", CloseBlock)}

Structural(tr) ==
    /\ Len(tr) >= 3
    /\ tr[1] \in OpenEvents
    /\ tr[Len(tr)] \in CloseEvents

\* C8, for every element type: an example that begins with "[" is written
\* verbatim and nothing else happens; any other example leads to the
\* structural rendering.
C8_AsStated ==
    [][Printing =>
        /\ FullLiteral =>
            /\ atrace' = << Ev("text", actx.example[1]) >>
            /\ out' = Out_write(out, actx.example[1])
        /\ (actx.example # None /\ ~FullLiteral) => Structural(atrace')
      ]_vars

\* C8: when the element type passes the visibility mode, an example that
\* begins with "[" is written verbatim and nothing else happens (no bracket,
\* element, ellipsis or indent change); an example that does not begin with
\* "[" leads to the structural rendering between brackets.
C8_LiteralArrayExample ==
    [][(Printing /\ ElemAllowed) =>
        /\ FullLiteral =>
            /\ atrace' = << Ev("text", actx.example[1]) >>
            /\ out' = Out_write(out, actx.example[1])
        /\ (actx.example # None /\ ~FullLiteral) => Structural(atrace')
      ]_vars

C8_Witness ==
    /\ status = "printed"
    /\ ElemAllowed
    /\ FullLiteral
    /\ atrace = << Ev("text", actx.example[1]) >>
    /\ out.lines # <<>>

\* C10: print_array leaves the indent level as it found it and closes every
\* bracket it opens: block mode pairs line("[") + inc_indent with
\* dec_indent + text("]"), inline mode pairs "[ " with " ]"; without variant
\* expansion one element and the ellipsis marker stand between the
\* brackets; both early returns write no bracket and change no indent.
RECURSIVE CountIn(_, _)
CountIn(tr, evs) ==
    IF tr = <<>>
    THEN 0
    ELSE (IF Head(tr) \in evs THEN 1 ELSE 0) + CountIn(Tail(tr), evs)

Expanded == Ty(actx.elem).kind = "Enum" /\ actx.expand

ElemTrace == print_elem(actx, actx.elem, [out |-> out, tr |-> <<>>]).tr

C10_ArrayBalanced ==
    [][Printing =>
        LET tr == atrace'
            n == Len(tr)
        IN  /\ out'.indent = out.indent
            /\ CountIn(tr, {Ev("inc_indent", <<>>)})
                = CountIn(tr, {Ev("dec_indent", <<>>)})
            /\ CountIn(tr, OpenEvents) = CountIn(tr, CloseEvents)
            /\ ~ElemAllowed => (tr = <<>> /\ out' = out)
            /\ (ElemAllowed /\ FullLiteral) =>
                    tr = << Ev("text", actx.example[1]) >>
            /\ (ElemAllowed /\ ~FullLiteral /\ actx.inline) =>
                /\ tr[1] = Ev("text", OpenInline)
                /\ tr[n] = Ev("text", CloseInline)
                /\ CountIn(tr, {Ev("inc_indent", <<>>)}) = 0
                /\ ~Expanded =>
                    /\ tr[n - 1] = Ev("text", CommaEllipsis)
                    /\ SubSeq(tr, 2, n - 2) = ElemTrace
            /\ (ElemAllowed /\ ~FullLiteral /\ ~actx.inline) =>
                /\ tr[1] = Ev("line", OpenBlock)
                /\ tr[2] = Ev("inc_indent", <<>>)
                /\ tr[n - 1] = Ev("dec_indent", <<>>)
                /\ tr[n] = Ev("text", CloseBlock)
                /\ ~Expanded =>
                    /\ tr[n - 3] = Ev("line", Comma)
                    /\ tr[n - 2] = Ev("line", Ellipsis)
                    /\ SubSeq(tr, 3, n - 4) = ElemTrace
      ]_vars

C10_Witness ==
    /\ status = "printed"
    /\ ElemAllowed
    /\ ~FullLiteral
    /\ ~actx.inline
    /\ Ty(actx.elem).kind = "Array"
    /\ CountIn(atrace, {Ev("dec_indent", <<>>)}) = 2
    /\ out.indent = 1

====
